---- MODULE Spec2Model ----
(***************************************************************************)
(* gitdown: resolve a repository tree (Client::get_dentries), let the user *)
(* pick paths through fzf (get_from_fzf), download the chosen paths with   *)
(* at most four fetches in flight (main).                                  *)
(*                                                                         *)
(* Strings that the program only carries around are TLA+ strings; the text *)
(* the picker writes is a sequence of one-character strings, so that trim  *)
(* and split act on characters.  Option<T> is <<>> (None) or <<v>>.        *)
(***************************************************************************)
EXTENDS Integers, Sequences, FiniteSets, TLC

\* ------------------------------------------------------------- bounds
\* longest tree listing the server returns
MaxTree == 3
\* longest text (in characters) the picker writes to its standard output
MaxOut == 3
\* longest chosen list the fetch pipeline is started on in SpecFetch
MaxChosen == 5
\* the longest cause chain of a wrapped reqwest::Error or io::Error
MaxCause == 3
\* how many units (lines on standard input, characters on standard output)
\* a pipe of the operating system holds
PipeCap == 2
\* how many lines io::BufWriter buffers before it writes them out
BufCap == 2

\* ---------------------------------------------------------- constants
\* buffer_unordered(4)
BufferSize == 4
\* StatusCode::OK
StatusOK == 200

\* --------------------------------------------------------- input sets
Users == {"alice", "bob"}
Repos == {"demo"}
\* repository paths a listing may name
Paths == {"a", "b"}
\* the `type` of a listing entry
Kinds == {"blob", "tree"}
\* characters of the picker's output
Chars == {"a", "b", " ", "\n"}
Whitespace == {" ", "\n"}
\* the statuses other than 200 a server answers with
OtherStatuses == {404}
\* exit of the picker: an exit code, or termination by a signal (no code)
ExitStatuses == {[code |-> <<0>>], [code |-> <<1>>], [code |-> <<130>>], [code |-> <<>>]}

VARIABLES
    pc,        \* where main is
    user,      \* parse_argv's (user, repo)
    repo,
    treeReq,   \* the url of the tree-listing request get_dentries sent: <<>> or <<url>>
    treeResp,  \* the response to it: <<>> or <<response>>
    res,       \* what get_dentries returned (kept until the picker is done): <<>> or <<Result>>
    paths,     \* main's `paths`, the items handed to the picker
    child,     \* the picker process: "none", "running", "exited"
    status,    \* the picker's exit status, once it exited: <<>> or <<status>>
    stdin,     \* the lines written to the picker's standard input
    stdout,    \* the characters the picker wrote to its standard output
    sel,       \* what get_from_fzf returned (kept as a record): <<>> or <<Result>>
    urls,      \* main's `urls`, the targets not yet drained
    started,   \* how many targets were drained from `urls`
    inflight,  \* the futures buffer_unordered holds
    collected, \* the length of the Vec<()> that collect builds
    files,     \* the local file system: path -> <<>> or <<content>>
    writes,    \* every fs::write that succeeded
    log,       \* the error! lines
    exit,      \* how the process ended: "running", "ok", "err", "panic"
    error,     \* the Error that Error::eprintln prints: <<>> or <<Error>>
    epc,       \* where Error::eprintln is
    cause,     \* eprint_cause's `e`, as the Display texts of e and of its sources
    stderr,    \* what Error::eprintln printed, one element per eprint!
    buf,       \* the lines held by the io::BufWriter over child.stdin
    stdinOpen, \* child.stdin is still held (the write end of the pipe is open)
    fed,       \* how many items went through writeln!
    taken,     \* how many lines of `stdin` the picker has read
    pending,   \* what the picker still has to write: <<>> or <<characters>>
    rd         \* what read_to_string read: <<>> or <<characters>>

vars == <<pc, user, repo, treeReq, treeResp, res, paths, child, status, stdin, stdout,
          sel, urls, started, inflight, collected, files, writes, log, exit,
          error, epc, cause, stderr, buf, stdinOpen, fed, taken, pending, rd>>

resolverVars == <<treeReq, treeResp, res>>
pickerVars == <<child, status, stdin, stdout>>
fetchVars == <<urls, started, inflight, collected, files, writes, log>>
errVars == <<error, epc, cause, stderr>>
pipeVars == <<buf, stdinOpen, fed, taken, pending, rd>>

\* ------------------------------------------------------------ helpers
None == <<>>
Some(v) == <<v>>
IsSome(o) == o # <<>>
Unwrap(o) == o[1]

Ok(v) == [tag |-> "Ok", val |-> v]
Err(k) == [tag |-> "Err", err |-> k]
\* an unwrap()/expect() that failed: the function does not return
Panic(l) == [tag |-> "Panic", line |-> l]

RECURSIVE SeqsUpTo(_, _)
SeqsUpTo(S, n) ==
    IF n = 0 THEN {<<>>}
    ELSE LET shorter == SeqsUpTo(S, n - 1)
         IN  shorter \cup {Append(s, x) : s \in {t \in shorter : Len(t) = n - 1}, x \in S}

\* ============================================================ Error
\* the Display texts of the errors that reqwest and std::io wrap
Causes == {"error sending request", "connection refused"}

\* a reqwest::Error or io::Error: its Display text, followed by the texts of
\* its chain of sources
InnerErrors == SeqsUpTo(Causes, MaxCause) \ {<<>>}

\* enum ErrorKind
ErrorKinds ==
    {[kind |-> k, path |-> p] : k \in {"DownloadFailure", "ReadFailure"}, p \in {"a"}}
    \cup {[kind |-> "EmptyText"], [kind |-> "Interrupted"]}
    \cup {[kind |-> "GitHubStatusFailure", status |-> "404 Not Found", msg |-> "{}"]}
    \cup {[kind |-> "MalformedRepo", repo |-> "demo"]}
    \cup {[kind |-> "ResponseKeyError", key |-> "tree"]}
    \cup {[kind |-> "TreeDoesNotExist", tree |-> "main", repo |-> "user/repo"]}
    \cup {[kind |-> k, inner |-> e] : k \in {"HttpClientError", "IoError"},
                                      e \in InnerErrors}
    \cup {[kind |-> "Other", status |-> "exit status: 1"]}

\* impl std::error::Error for Error: fn source
source(e) ==
    IF e.kind = "HttpClientError" THEN Some(e.inner) ELSE None

\* impl fmt::Display for ErrorKind
Display(e) ==
    CASE e.kind = "DownloadFailure" ->
            "Downloading from " \o e.path \o " caused an error"
      [] e.kind = "EmptyText" -> "Text was not provided"
      [] e.kind = "GitHubStatusFailure" ->
            "GitHub API failure with response status " \o e.status \o ": " \o e.msg
      [] e.kind = "Interrupted" -> "Fzf was Interrupted"
      [] e.kind = "MalformedRepo" -> "The given repo " \o e.repo \o " is malformed."
      [] e.kind = "ReadFailure" -> "Reading from " \o e.path \o " caused an error"
      [] e.kind = "ResponseKeyError" -> "The response is missing the key: " \o e.key
      [] e.kind = "TreeDoesNotExist" ->
            "The tree " \o e.tree \o " does not exist for repo " \o e.repo
            \o ". If you did not specify a tree, specify master (by default, the tree is main)."
      [] e.kind = "HttpClientError" -> "Network request failure"
      [] e.kind = "IoError" -> "I/O failure"
      [] e.kind = "Other" -> "An error occured: " \o e.status

\* ====================================================== TreeResolver
\* GitHubDirEntry as serde reads it from the listing: `path` is optional,
\* `type` is required (an entry without it does not deserialize).
DirEntries == [path : {None} \cup {Some(p) : p \in Paths},
               ty : {None} \cup {Some(k) : k \in Kinds}]

\* The body of a response, as serde_json sees it.
\*   json   : the text parses as a JSON document
\*   tree   : the value under the top-level key "tree", if any
\*   isArr  : that value is an array
\*   elems  : its elements
Docs ==
    {[json |-> FALSE, tree |-> None]}
    \cup {[json |-> TRUE, tree |-> None]}
    \cup {[json |-> TRUE, tree |-> Some([isArr |-> FALSE, elems |-> <<>>])]}
    \cup {[json |-> TRUE, tree |-> Some([isArr |-> TRUE, elems |-> es])] :
            es \in SeqsUpTo(DirEntries, MaxTree)}

\* What the API does with the tree-listing request.
\*   sent   : req.send() succeeded
\*   status : the response's status
\*   text   : res.text() gives the body (<<doc>>) or fails (<<>>)
TreeResponses ==
    {[sent |-> FALSE, status |-> 0, text |-> None]}
    \cup {[sent |-> TRUE, status |-> st, text |-> t] :
            st \in OtherStatuses, t \in {None, Some([json |-> FALSE, tree |-> None])}}
    \cup {[sent |-> TRUE, status |-> StatusOK, text |-> None]}
    \cup {[sent |-> TRUE, status |-> StatusOK, text |-> Some(d)] : d \in Docs}

\* Client::send
send(r) ==
    IF ~r.sent THEN Err([kind |-> "HttpClientError"])
    ELSE IF r.status = StatusOK THEN Ok(r)
    ELSE IF IsSome(r.text)
         THEN Err([kind |-> "GitHubStatusFailure", status |-> r.status])
         ELSE Panic(56)

\* let tree = if let Some(t) = tree { t } else { "main" }
TreeName(tree) == IF IsSome(tree) THEN Unwrap(tree) ELSE "main"

\* the url of the tree-listing request
TreeUrl(base_url, username, reponame, tree) ==
    base_url \o "/" \o username \o "/" \o reponame \o "/git/trees/"
        \o TreeName(tree) \o "?recursive=1"

\* faulty variant: the blobs are collected in reverse
RECURSIVE FilterBlobs_Reversed(_)
FilterBlobs_Reversed(s) ==
    IF s = <<>> THEN <<>>
    ELSE IF Unwrap(Head(s).ty) = "blob" THEN FilterBlobs_Reversed(Tail(s)) \o <<Head(s)>>
         ELSE FilterBlobs_Reversed(Tail(s))

\* dentries.into_iter().filter(|d| d.ty == "blob").collect()
RECURSIVE FilterBlobs(_)
FilterBlobs(s) ==
    IF s = <<>> THEN <<>>
    ELSE IF Unwrap(Head(s).ty) = "blob" THEN <<Head(s)>> \o FilterBlobs(Tail(s))
         ELSE FilterBlobs(Tail(s))

\* serde_json::from_value::<Vec<GitHubDirEntry>>: None when it fails
Deserialize(v) ==
    IF v.isArr /\ \A i \in 1..Len(v.elems) : IsSome(v.elems[i].ty)
    THEN Some(v.elems) ELSE None

\* faulty variant: a body without `tree` is taken for an empty listing
ParseBody_MissingIsEmpty(body) ==
    IF ~body.json THEN Panic(87)
    ELSE IF IsSome(body.tree)
    THEN LET dentries == Deserialize(Unwrap(body.tree)) IN
         IF IsSome(dentries)
         THEN Ok(FilterBlobs(Unwrap(dentries)))
         ELSE Panic(90)
    ELSE Ok(<<>>)

\* Client::get_dentries, from the text of a 200 response on
ParseBody(body) ==
    IF ~body.json THEN Panic(87)
    ELSE IF IsSome(body.tree)
    THEN LET dentries == Deserialize(Unwrap(body.tree)) IN
         IF IsSome(dentries)
         THEN Ok(FilterBlobs(Unwrap(dentries)))
         ELSE Panic(90)
    ELSE Err([kind |-> "ResponseKeyError", key |-> "tree"])

\* Client::get_dentries, from the response on
get_dentries(r, username, reponame, tree) ==
    LET s == send(r) IN
    IF s.tag = "Panic" THEN s
    ELSE IF s.tag = "Err"
    THEN Err([kind |-> "TreeDoesNotExist", tree |-> TreeName(tree),
              repo |-> username \o "/" \o reponame])
    ELSE IF ~IsSome(r.text) THEN Err([kind |-> "HttpClientError"])
    ELSE ParseBody(Unwrap(r.text))

ApiBase == "https://api.github.com/repos"
RawBase == "https://raw.githubusercontent.com"

\* ==================================================== SelectionBridge
RECURSIVE TrimStart(_)
TrimStart(s) ==
    IF s # <<>> /\ Head(s) \in Whitespace THEN TrimStart(Tail(s)) ELSE s

RECURSIVE TrimEnd(_)
TrimEnd(s) ==
    IF s # <<>> /\ s[Len(s)] \in Whitespace
    THEN TrimEnd(SubSeq(s, 1, Len(s) - 1)) ELSE s

\* str::trim: leading and trailing whitespace removed
Trim(s) == TrimEnd(TrimStart(s))

\* str::split("\n"): the pieces between the newlines; one piece for a text
\* without a newline, the empty text included
RECURSIVE Split(_, _)
Split(s, piece) ==
    IF s = <<>> THEN <<piece>>
    ELSE IF Head(s) = "\n" THEN <<piece>> \o Split(Tail(s), <<>>)
         ELSE Split(Tail(s), Append(piece, Head(s)))

\* .map(|&s| s.into()): a piece as a String
RECURSIVE Str(_)
Str(cs) == IF cs = <<>> THEN "" ELSE Head(cs) \o Str(Tail(cs))

\* output.trim().split("\n").collect().iter().map(|&s| s.into()).collect()
ChosenLines(output) ==
    LET pieces == Split(Trim(output), <<>>)
    IN  [i \in 1..Len(pieces) |-> Str(pieces[i])]

\* what the picker may have written to its standard output
Outputs == SeqsUpTo(Chars, MaxOut)

\* status.success()
Success(st) == st.code = Some(0)

\* faulty variant: every unsuccessful exit is taken for an interruption
Interpret_AllInterrupted(st, output, readOk) ==
    IF Success(st)
    THEN IF readOk THEN Ok(Some(ChosenLines(output)))
         ELSE Err([kind |-> "IoError"])
    ELSE Err([kind |-> "Interrupted"])

\* get_from_fzf, from the exit status on; readOk: read_to_string succeeded
Interpret(st, output, readOk) ==
    IF Success(st)
    THEN IF readOk THEN Ok(Some(ChosenLines(output)))
         ELSE Err([kind |-> "IoError"])
    ELSE IF st.code = None THEN Err([kind |-> "Interrupted"])
         ELSE Err([kind |-> "Other", status |-> st])

\* ===================================================== FetchScheduler
\* faulty variant: the raw url names another branch than the listing
RawPath_Master(u, r, path) == RawBase \o "/" \o u \o "/" \o r \o "/master/" \o path

\* format!("https://raw.githubusercontent.com/{}/{}/main/{}", user, repo, path)
RawPath(u, r, path) == RawBase \o "/" \o u \o "/" \o r \o "/main/" \o path

\* paths.into_iter().map(|path| GitHubDirEntry {..}).collect()
Targets(u, r, chosen) ==
    [i \in 1..Len(chosen) |->
        [path |-> chosen[i], raw_path |-> RawPath(u, r, chosen[i])]]

\* What the raw-content host answers: the file for a 200, an error page
\* otherwise.
RawStatuses == {StatusOK} \cup OtherStatuses
RawBody(raw_path, st) ==
    IF st = StatusOK THEN "content of " \o raw_path ELSE "404: Not Found"

\* fs::write(path, text) on a path the file system can never create
Unwritable(path) == path = ""

\* fs::write: the file system after the write
WriteFile(fs, path, text) ==
    [p \in DOMAIN fs \cup {path} |-> IF p = path THEN text ELSE fs[p]]

\* faulty variant: one future too many is held
CanStart_OffByOne == Cardinality(inflight) <= BufferSize /\ urls # <<>>

\* buffer_unordered: the next future is pulled from the stream while fewer
\* than BufferSize are held
CanStart == Cardinality(inflight) < BufferSize /\ urls # <<>>

\* ============================================================= main
Init ==
    /\ pc = "start"
    /\ user \in Users
    /\ repo \in Repos
    /\ treeReq = None
    /\ treeResp = None
    /\ res = None
    /\ paths = <<>>
    /\ child = "none"
    /\ status = None
    /\ stdin = <<>>
    /\ stdout = <<>>
    /\ sel = None
    /\ urls = <<>>
    /\ started = 0
    /\ inflight = {}
    /\ collected = 0
    /\ files = <<>>
    /\ writes = {}
    /\ log = {}
    /\ exit = "running"
    /\ error = None /\ epc = "idle" /\ cause = <<>> /\ stderr = <<>>
    /\ buf = <<>> /\ stdinOpen = FALSE /\ fed = 0 /\ taken = 0
    /\ pending = None /\ rd = None

\* Client::from_url(..).expect(..)
FromUrl(ok) ==
    /\ pc = "start"
    /\ IF ok THEN pc' = "call" /\ exit' = exit
             ELSE pc' = "exit" /\ exit' = "panic"
    /\ UNCHANGED <<errVars, pipeVars, user, repo, resolverVars, paths, pickerVars, sel, fetchVars>>

\* get_dentries(user, repo, None): the request is sent
SendTreeRequest ==
    /\ pc = "call"
    /\ treeReq' = Some(TreeUrl(ApiBase, user, repo, None))
    /\ pc' = "get_dentries"
    /\ UNCHANGED <<errVars, pipeVars, user, repo, treeResp, res, paths, pickerVars, sel, fetchVars, exit>>

\* get_dentries returns (or panics) on the response r
GetDentriesReturns(r) ==
    /\ pc = "get_dentries"
    /\ treeResp' = Some(r)
    /\ LET g == get_dentries(r, user, repo, None) IN
       /\ res' = Some(g)
       /\ IF g.tag = "Panic" THEN pc' = "exit" /\ exit' = "panic"
                             ELSE pc' = "resolved" /\ exit' = exit
    /\ UNCHANGED <<errVars, pipeVars, user, repo, treeReq, paths, pickerVars, sel, fetchVars>>

\* .await?  then  res.into_iter().map(|gh| gh.path.unwrap()).collect()
CollectPaths ==
    /\ pc = "resolved"
    /\ LET g == Unwrap(res) IN
       IF g.tag = "Err"
       THEN /\ pc' = "exit" /\ exit' = "err"
            /\ paths' = paths
       ELSE IF \E i \in 1..Len(g.val) : g.val[i].path = None
       THEN /\ pc' = "exit" /\ exit' = "panic"
            /\ paths' = paths
       ELSE /\ pc' = "select" /\ exit' = exit
            /\ paths' = [i \in 1..Len(g.val) |-> Unwrap(g.val[i].path)]
    /\ treeResp' = None
    /\ UNCHANGED <<errVars, pipeVars, user, repo, treeReq, res, pickerVars, sel, fetchVars>>

\* faulty variant: the picker is spawned while the listing is still awaited
Spawn_Early(ok) ==
    /\ pc \in {"select", "get_dentries"}
    /\ IF ok THEN /\ child' = "running" /\ pc' = "feed" /\ sel' = sel
             ELSE /\ child' = child /\ pc' = "selected"
                  /\ sel' = Some(Err([kind |-> "IoError"]))
    /\ UNCHANGED <<errVars, pipeVars, user, repo, resolverVars, paths, status, stdin, stdout, fetchVars, exit>>

\* command.spawn()?
Spawn(ok) ==
    /\ pc = "select"
    /\ IF ok THEN /\ child' = "running" /\ pc' = "feed" /\ sel' = sel
             ELSE /\ child' = child /\ pc' = "selected"
                  /\ sel' = Some(Err([kind |-> "IoError"]))
    /\ UNCHANGED <<errVars, pipeVars, user, repo, resolverVars, paths, status, stdin, stdout, fetchVars, exit>>

\* the picker terminates with exit status st; what it wrote stays in the
\* pipe, unseen until get_from_fzf reads it
PickerExits(st) ==
    /\ child = "running"
    /\ child' = "exited"
    /\ status' = Some(st)
    /\ UNCHANGED <<errVars, pipeVars, pc, user, repo, resolverVars, paths, stdin, stdout, sel, fetchVars,
                   exit>>

\* for item in items { writeln!(&mut stdin, "{}", item)?; }  and the drop of
\* the BufWriter; a write can fail only once the picker is gone
Feed(ok) ==
    /\ pc = "feed"
    /\ ok \/ child = "exited"
    /\ IF ok THEN /\ stdin' = paths /\ pc' = "wait" /\ sel' = sel
             ELSE /\ stdin' = stdin /\ pc' = "selected"
                  /\ sel' = Some(Err([kind |-> "IoError"]))
    /\ paths' = <<>>
    /\ UNCHANGED <<errVars, pipeVars, user, repo, resolverVars, child, status, stdout, fetchVars, exit>>

\* child.wait()?  returns once the picker has exited
Wait(ok) ==
    /\ pc = "wait"
    /\ child = "exited"
    /\ IF ok THEN pc' = "interpret" /\ sel' = sel
             ELSE pc' = "selected" /\ sel' = Some(Err([kind |-> "IoError"]))
    /\ UNCHANGED <<errVars, pipeVars, user, repo, resolverVars, paths, pickerVars, fetchVars, exit>>

\* the rest of get_from_fzf; on success it reads `out`, all the picker
\* wrote (readOk: read_to_string succeeded)
Interprets(readOk, out) ==
    /\ pc = "interpret"
    /\ stdout' = IF Success(Unwrap(status)) THEN out ELSE stdout
    /\ sel' = Some(Interpret(Unwrap(status), out, readOk))
    /\ pc' = "selected"
    /\ UNCHANGED <<errVars, pipeVars, user, repo, resolverVars, paths, child, status, stdin, fetchVars,
                   exit>>

\* faulty variant: an error of get_from_fzf is taken for an empty choice
BuildUrls_IgnoresErr ==
    /\ pc = "selected"
    /\ pc' = "client" /\ exit' = exit
    /\ urls' = IF Unwrap(sel).tag = "Err" THEN <<>>
               ELSE Targets(user, repo, Unwrap(Unwrap(sel).val))
    /\ child' = "none" /\ status' = None /\ stdin' = <<>> /\ stdout' = <<>>
    /\ res' = None
    /\ UNCHANGED <<errVars, pipeVars, user, repo, treeReq, treeResp, paths, sel, started, inflight,
                   collected, files, writes, log>>

\* if let Some(paths) = get_from_fzf(paths).unwrap() { let mut urls = .. }
BuildUrls ==
    /\ pc = "selected"
    /\ LET s == Unwrap(sel) IN
       IF s.tag = "Err"
       THEN /\ pc' = "exit" /\ exit' = "panic"
            /\ urls' = urls
       ELSE /\ pc' = "client" /\ exit' = exit
            /\ urls' = Targets(user, repo, Unwrap(s.val))
    /\ child' = "none" /\ status' = None /\ stdin' = <<>> /\ stdout' = <<>>
    /\ res' = None
    /\ UNCHANGED <<errVars, pipeVars, user, repo, treeReq, treeResp, paths, sel, started, inflight,
                   collected, files, writes, log>>

\* let client = ReqwestClient::builder().build()?
BuildClient(ok) ==
    /\ pc = "client"
    /\ IF ok THEN pc' = "fetch" /\ exit' = exit
             ELSE pc' = "exit" /\ exit' = "err"
    /\ UNCHANGED <<errVars, pipeVars, user, repo, resolverVars, paths, pickerVars, sel, fetchVars>>

\* buffer_unordered pulls the next target from urls.drain(..) and holds its
\* future; idx is the target's place in the chosen list
StartFetch ==
    /\ pc = "fetch"
    /\ CanStart
    /\ inflight' = inflight \cup
          {[idx |-> started + 1, path |-> Head(urls).path,
            raw_path |-> Head(urls).raw_path, stage |-> "send", status |-> 0]}
    /\ urls' = Tail(urls)
    /\ started' = started + 1
    /\ UNCHANGED <<errVars, pipeVars, pc, user, repo, resolverVars, paths, pickerVars, sel, collected,
                   files, writes, log, exit>>

\* the futures are polled once the buffer is full or the stream is drained
CanPoll == pc = "fetch" /\ ~CanStart

\* faulty variant: a transport failure ends the whole pipeline
SendFails_Aborts(f) ==
    /\ CanPoll
    /\ f \in inflight /\ f.stage = "send"
    /\ log' = log \cup {[idx |-> f.idx, msg |-> "when downloading " \o f.raw_path]}
    /\ inflight' = {}
    /\ urls' = <<>>
    /\ collected' = collected + 1
    /\ UNCHANGED <<errVars, pipeVars, pc, user, repo, resolverVars, paths, pickerVars, sel, started,
                   files, writes, exit>>

\* send_fut.await is Err(_): error!("when downloading {}", raw_path)
SendFails(f) ==
    /\ CanPoll
    /\ f \in inflight /\ f.stage = "send"
    /\ log' = log \cup {[idx |-> f.idx, msg |-> "when downloading " \o f.raw_path]}
    /\ inflight' = inflight \ {f}
    /\ collected' = collected + 1
    /\ UNCHANGED <<errVars, pipeVars, pc, user, repo, resolverVars, paths, pickerVars, sel, urls, started,
                   files, writes, exit>>

\* send_fut.await is Ok(res), whatever the response's status
SendSucceeds(f, st) ==
    /\ CanPoll
    /\ f \in inflight /\ f.stage = "send"
    /\ inflight' = (inflight \ {f}) \cup {[f EXCEPT !.stage = "text", !.status = st]}
    /\ UNCHANGED <<errVars, pipeVars, pc, user, repo, resolverVars, paths, pickerVars, sel, urls, started,
                   collected, files, writes, log, exit>>

\* res.text().await is Err(_): error!("when reading {}", raw_path)
TextFails(f) ==
    /\ CanPoll
    /\ f \in inflight /\ f.stage = "text"
    /\ log' = log \cup {[idx |-> f.idx, msg |-> "when reading " \o f.raw_path]}
    /\ inflight' = inflight \ {f}
    /\ collected' = collected + 1
    /\ UNCHANGED <<errVars, pipeVars, pc, user, repo, resolverVars, paths, pickerVars, sel, urls, started,
                   files, writes, exit>>

\* faulty variant: a fetch writes the body of the newest fetch in flight
TextOf_CrossWired(f) ==
    LET g == CHOOSE g \in inflight : \A h \in inflight : g.idx >= h.idx
    IN  RawBody(g.raw_path, f.status)

\* the body a fetch writes
TextOf(f) == RawBody(f.raw_path, f.status)

\* res.text().await is Ok(text) and fs::write(path, text) succeeds
TextWritten(f) ==
    /\ CanPoll
    /\ f \in inflight /\ f.stage = "text"
    /\ ~Unwritable(f.path)
    /\ files' = WriteFile(files, f.path, TextOf(f))
    /\ writes' = writes \cup
          {[idx |-> f.idx, path |-> f.path, text |-> TextOf(f), status |-> f.status]}
    /\ inflight' = inflight \ {f}
    /\ collected' = collected + 1
    /\ UNCHANGED <<errVars, pipeVars, pc, user, repo, resolverVars, paths, pickerVars, sel, urls, started,
                   log, exit>>

\* res.text().await is Ok(text) and fs::write fails:
\* .expect("Unable to write file") panics: this future ends, and the
\* process dies with the other futures and the undrained targets where
\* they are
WritePanics(f) ==
    /\ CanPoll
    /\ f \in inflight /\ f.stage = "text"
    /\ inflight' = inflight \ {f}
    /\ pc' = "exit" /\ exit' = "panic"
    /\ UNCHANGED <<errVars, pipeVars, user, repo, resolverVars, paths, pickerVars, sel, urls, started,
                   collected, files, writes, log>>

\* faulty variant: main fails when a download was reported as failed
FetchesDone_Strict ==
    /\ pc = "fetch"
    /\ urls = <<>> /\ inflight = {}
    /\ pc' = "exit" /\ exit' = IF log = {} THEN "ok" ELSE "err"
    /\ UNCHANGED <<errVars, pipeVars, user, repo, resolverVars, paths, pickerVars, sel, fetchVars>>

\* faulty variant: main returns as soon as the stream is drained
FetchesDone_NoWait ==
    /\ pc = "fetch"
    /\ urls = <<>>
    /\ pc' = "exit" /\ exit' = "ok"
    /\ UNCHANGED <<errVars, pipeVars, user, repo, resolverVars, paths, pickerVars, sel, fetchVars>>

\* the stream is drained and no future is held: collect is done,
\* fetches.await returns and main returns Ok(())
FetchesDone ==
    /\ pc = "fetch"
    /\ urls = <<>> /\ inflight = {}
    /\ pc' = "exit" /\ exit' = "ok"
    /\ UNCHANGED <<errVars, pipeVars, user, repo, resolverVars, paths, pickerVars, sel, fetchVars>>

FetchNext ==
    \/ StartFetch
    \/ \E f \in inflight : SendFails(f)
    \/ \E f \in inflight, st \in RawStatuses : SendSucceeds(f, st)
    \/ \E f \in inflight : TextFails(f)
    \/ \E f \in inflight : TextWritten(f)
    \/ \E f \in inflight : WritePanics(f)
    \/ FetchesDone

Next ==
    \/ \E ok \in BOOLEAN : FromUrl(ok)
    \/ SendTreeRequest
    \/ \E r \in TreeResponses : GetDentriesReturns(r)
    \/ CollectPaths
    \/ \E ok \in BOOLEAN : Spawn(ok)
    \/ \E st \in ExitStatuses : PickerExits(st)
    \/ \E ok \in BOOLEAN : Feed(ok)
    \/ \E ok \in BOOLEAN : Wait(ok)
    \/ \E ok \in BOOLEAN, out \in Outputs : Interprets(ok, out)
    \/ BuildUrls
    \/ \E ok \in BOOLEAN : BuildClient(ok)
    \/ FetchNext

Spec == Init /\ [][Next]_vars

\* The fetch pipeline alone, started on a list of distinct chosen paths.
ChosenName(i) == "f" \o ToString(i)
InitFetch ==
    /\ pc = "fetch"
    /\ user \in Users
    /\ repo \in Repos
    /\ treeReq = None /\ treeResp = None /\ res = None
    /\ paths = <<>>
    /\ child = "none" /\ status = None /\ stdin = <<>> /\ stdout = <<>>
    /\ \E n \in 0..MaxChosen :
          LET chosen == [i \in 1..n |-> ChosenName(i)] IN
          /\ sel = Some(Ok(Some(chosen)))
          /\ urls = Targets(user, repo, chosen)
    /\ started = 0
    /\ inflight = {}
    /\ collected = 0
    /\ files = <<>>
    /\ writes = {}
    /\ log = {}
    /\ exit = "running"
    /\ error = None /\ epc = "idle" /\ cause = <<>> /\ stderr = <<>>
    /\ buf = <<>> /\ stdinOpen = FALSE /\ fed = 0 /\ taken = 0
    /\ pending = None /\ rd = None

SpecFetch == InitFetch /\ [][FetchNext]_vars

\* ---------------------------------------------------- Error::eprintln
mainVars == <<pc, user, repo, resolverVars, paths, pickerVars, sel, fetchVars, exit,
              pipeVars>>

\* eprint!("Error: {}", self); if let Some(s) = self.source() { eprint_cause(s) }
EprintError ==
    /\ epc = "eprintln"
    /\ stderr' = Append(stderr, "Error: " \o Display(Unwrap(error)))
    /\ IF IsSome(source(Unwrap(error)))
       THEN epc' = "eprint_cause" /\ cause' = Unwrap(source(Unwrap(error)))
       ELSE epc' = "eprintln!" /\ cause' = cause
    /\ UNCHANGED <<mainVars, error>>

\* fn eprint_cause: eprint!(": {}", e); if let Some(s) = e.source() { eprint_cause(s) }
EprintCause ==
    /\ epc = "eprint_cause"
    /\ stderr' = Append(stderr, ": " \o Head(cause))
    /\ IF Tail(cause) # <<>>
       THEN epc' = "eprint_cause" /\ cause' = Tail(cause)
       ELSE epc' = "eprintln!" /\ cause' = <<>>
    /\ UNCHANGED <<mainVars, error>>

\* eprintln!()
EprintNewline ==
    /\ epc = "eprintln!"
    /\ stderr' = Append(stderr, "\n")
    /\ epc' = "done"
    /\ UNCHANGED <<mainVars, error, cause>>

ErrorNext == EprintError \/ EprintCause \/ EprintNewline

\* Error::eprintln is called on an Error of any kind
InitError ==
    /\ pc = "start"
    /\ user \in Users
    /\ repo \in Repos
    /\ treeReq = None /\ treeResp = None /\ res = None
    /\ paths = <<>>
    /\ child = "none" /\ status = None /\ stdin = <<>> /\ stdout = <<>>
    /\ sel = None
    /\ urls = <<>> /\ started = 0 /\ inflight = {} /\ collected = 0
    /\ files = <<>> /\ writes = {} /\ log = {}
    /\ exit = "running"
    /\ error \in {Some(e) : e \in ErrorKinds}
    /\ epc = "eprintln" /\ cause = <<>> /\ stderr = <<>>
    /\ buf = <<>> /\ stdinOpen = FALSE /\ fed = 0 /\ taken = 0
    /\ pending = None /\ rd = None

SpecError == InitError /\ [][ErrorNext]_vars

\* ------------------------------------- get_from_fzf, pipe by pipe
\* the characters of the picker's output in this view
PipeChars == {"a", "\n"}

idleVars == <<user, repo, resolverVars, paths, fetchVars, exit, errVars>>

\* writeln!(&mut stdin, "{}", item)?: the BufWriter takes the line, or has
\* to write its buffer out first
Writeln ==
    /\ pc = "writeln"
    /\ fed < Len(paths)
    /\ IF Len(buf) < BufCap
       THEN buf' = Append(buf, paths[fed + 1]) /\ fed' = fed + 1 /\ pc' = pc
       ELSE pc' = "flush_buf" /\ UNCHANGED <<buf, fed>>
    /\ UNCHANGED <<idleVars, pickerVars, sel, stdinOpen, taken, pending, rd>>

\* the end of the scope of the BufWriter: it is dropped
EndOfItems ==
    /\ pc = "writeln"
    /\ fed = Len(paths)
    /\ pc' = IF buf = <<>> THEN "wait" ELSE "drop"
    /\ UNCHANGED <<idleVars, pickerVars, sel, pipeVars>>

\* BufWriter::flush_buf, in writeln! or in drop: a line goes to the pipe when
\* the pipe has room (the write blocks otherwise); when the picker is gone,
\* the write fails: writeln!(..)? returns the error, drop swallows it
FlushBuf ==
    /\ pc \in {"flush_buf", "drop"}
    /\ IF child = "exited"
       THEN /\ buf' = <<>>
            /\ IF pc = "flush_buf"
               THEN pc' = "selected" /\ sel' = Some(Err([kind |-> "IoError"]))
               ELSE pc' = "wait" /\ sel' = sel
            /\ stdin' = stdin
       ELSE /\ Len(stdin) - taken < PipeCap
            /\ stdin' = Append(stdin, Head(buf))
            /\ buf' = Tail(buf)
            /\ pc' = IF Tail(buf) # <<>> THEN pc
                     ELSE IF pc = "flush_buf" THEN "writeln" ELSE "wait"
            /\ sel' = sel
    /\ UNCHANGED <<idleVars, child, status, stdout, stdinOpen, fed, taken, pending, rd>>

\* faulty variant: the wait begins with child.stdin still held
WaitBegins_KeepsStdin ==
    /\ pc = "wait"
    /\ pc' = "waitpid"
    /\ UNCHANGED <<idleVars, pickerVars, sel, pipeVars>>

\* child.wait(): Child::wait drops child.stdin, then blocks
WaitBegins ==
    /\ pc = "wait"
    /\ stdinOpen' = FALSE
    /\ pc' = "waitpid"
    /\ UNCHANGED <<idleVars, pickerVars, sel, buf, fed, taken, pending, rd>>

\* let status = child.wait()?: the picker has exited
WaitReturns(ok) ==
    /\ pc = "waitpid"
    /\ child = "exited"
    /\ IF ok THEN pc' = "status" /\ sel' = sel
             ELSE pc' = "selected" /\ sel' = Some(Err([kind |-> "IoError"]))
    /\ UNCHANGED <<idleVars, pickerVars, pipeVars>>

\* if status.success() { child.stdout.unwrap().read_to_string(..)?; .. } else { .. }
ReadOutput(readOk) ==
    /\ pc = "status"
    /\ rd' = IF Success(Unwrap(status)) /\ readOk THEN Some(stdout) ELSE rd
    /\ sel' = Some(Interpret(Unwrap(status), stdout, readOk))
    /\ pc' = "selected"
    /\ UNCHANGED <<idleVars, pickerVars, buf, stdinOpen, fed, taken, pending>>

\* the picker reads a line of its standard input
ChildReads ==
    /\ child = "running"
    /\ pending = None
    /\ taken < Len(stdin)
    /\ taken' = taken + 1
    /\ UNCHANGED <<idleVars, pc, pickerVars, sel, buf, stdinOpen, fed, pending, rd>>

\* the picker has its answer and stops reading
ChildAnswers(out) ==
    /\ child = "running"
    /\ pending = None
    /\ pending' = Some(out)
    /\ UNCHANGED <<idleVars, pc, pickerVars, sel, buf, stdinOpen, fed, taken, rd>>

\* the picker writes a character of its answer when the pipe has room (the
\* write blocks otherwise)
ChildWrites ==
    /\ child = "running"
    /\ pending # None /\ Unwrap(pending) # <<>>
    /\ Len(stdout) < PipeCap
    /\ stdout' = Append(stdout, Head(Unwrap(pending)))
    /\ pending' = Some(Tail(Unwrap(pending)))
    /\ UNCHANGED <<idleVars, pc, child, status, stdin, sel, buf, stdinOpen, fed, taken, rd>>

\* the picker exits once its answer is written
ChildExits(st) ==
    /\ child = "running"
    /\ pending = Some(<<>>)
    /\ st.code # None
    /\ child' = "exited" /\ status' = Some(st)
    /\ UNCHANGED <<idleVars, pc, stdin, stdout, sel, pipeVars>>

\* the picker is killed by a signal
ChildKilled(st) ==
    /\ child = "running"
    /\ st.code = None
    /\ child' = "exited" /\ status' = Some(st)
    /\ UNCHANGED <<idleVars, pc, stdin, stdout, sel, pipeVars>>

\* the steps of get_from_fzf
ParentNext ==
    \/ Writeln
    \/ EndOfItems
    \/ FlushBuf
    \/ WaitBegins
    \/ \E ok \in BOOLEAN : WaitReturns(ok)
    \/ \E readOk \in BOOLEAN : ReadOutput(readOk)

\* the steps the picker takes by itself
ChildNext ==
    \/ ChildReads
    \/ \E out \in SeqsUpTo(PipeChars, MaxOut) : ChildAnswers(out)
    \/ ChildWrites
    \/ \E st \in ExitStatuses : ChildExits(st)

PipeNext == ParentNext \/ ChildNext \/ \E st \in ExitStatuses : ChildKilled(st)

\* command.spawn()? has succeeded
InitPipe ==
    /\ pc = "writeln"
    /\ user \in Users
    /\ repo \in Repos
    /\ treeReq = None /\ treeResp = None /\ res = None
    /\ paths \in SeqsUpTo(Paths, MaxTree)
    /\ child = "running" /\ status = None /\ stdin = <<>> /\ stdout = <<>>
    /\ sel = None
    /\ urls = <<>> /\ started = 0 /\ inflight = {} /\ collected = 0
    /\ files = <<>> /\ writes = {} /\ log = {}
    /\ exit = "running"
    /\ error = None /\ epc = "idle" /\ cause = <<>> /\ stderr = <<>>
    /\ buf = <<>> /\ stdinOpen = TRUE /\ fed = 0 /\ taken = 0
    /\ pending = None /\ rd = None

SpecPipe == InitPipe /\ [][PipeNext]_vars

\* ============================================================ claims
\* the chosen list get_from_fzf returned
Chosen == Unwrap(Unwrap(sel).val)
\* the target at place i reported a failure / wrote its file
Reported(i) == \E l \in log : l.idx = i
WritesOf(i) == {w \in writes : w.idx = i}

\* C1: in the buffer_unordered(4) pipeline the number of fetches in flight
\* (started and not yet finished) is never greater than 4.
C1_AtMostFourInFlight == Cardinality(inflight) <= 4

\* C1 witness: four fetches are in flight, at different stages, while a
\* fifth target waits in the stream.
C1_Witness ==
    /\ Cardinality(inflight) = 4
    /\ urls # <<>>
    /\ \E f, g \in inflight : f.stage = "send" /\ g.stage = "text"

\* C2: when the process ends Ok, every target that failed at the transport
\* or body-read stage is reported and wrote nothing, and every other
\* target wrote, once, the body fetched from its own raw url to its own
\* local path, where the file now holds a body written for that path.
C2_FaultIsolation ==
    exit = "ok" =>
        \A i \in 1..Len(Chosen) :
            LET url == RawPath(user, repo, Chosen[i])
                failed == \/ [idx |-> i, msg |-> "when downloading " \o url] \in log
                          \/ [idx |-> i, msg |-> "when reading " \o url] \in log
            IN  IF failed THEN WritesOf(i) = {}
                ELSE /\ \E w \in WritesOf(i) :
                          /\ WritesOf(i) = {w}
                          /\ w.path = Chosen[i]
                          /\ w.text = RawBody(url, w.status)
                     /\ Chosen[i] \in DOMAIN files
                     /\ \E w \in writes : w.path = Chosen[i] /\ files[Chosen[i]] = w.text

\* C2 witness: of three targets the 2nd failed at the transport stage and
\* the 1st and 3rd were written.
C2_Witness ==
    /\ exit = "ok"
    /\ Len(Chosen) = 3
    /\ \E l \in log : l.idx = 2 /\ l.msg = "when downloading " \o RawPath(user, repo, Chosen[2])
    /\ WritesOf(1) # {} /\ WritesOf(3) # {}
    /\ Chosen[1] \in DOMAIN files /\ Chosen[3] \in DOMAIN files
    /\ Chosen[2] \notin DOMAIN files

\* C3 (as claimed): whatever happens to any target at any stage, the local
\* write included, every chosen target is attempted and finishes: when the
\* process has ended no target is left undrained or in flight.
C3_EveryTargetFinishes == pc = "exit" => (urls = <<>> /\ inflight = {})

\* C10: the run proceeds to its final Ok exit only when no fetch is in
\* flight and no target is pending: every chosen target was started and
\* has finished, by a write or by a reported failure.
C10_ReturnsAfterAllFetches ==
    exit = "ok" =>
        /\ inflight = {} /\ urls = <<>>
        /\ started = Len(Chosen) /\ collected = Len(Chosen)
        /\ \A i \in 1..Len(Chosen) : Reported(i) \/ WritesOf(i) # {}

\* C10 witness: a run of more targets than the buffer holds ended Ok, with
\* written targets and failed ones.
C10_Witness ==
    /\ exit = "ok"
    /\ Len(Chosen) > BufferSize
    /\ writes # {} /\ log # {}
    /\ collected = Len(Chosen)

\* the tree-listing response get_dentries received, and what it made of it
Resp == Unwrap(treeResp)
Returned == Unwrap(res)
\* the response is a listing: a 200 whose body holds a `tree` array of entries
IsListing(r) ==
    /\ r.sent /\ r.status = 200 /\ r.text # <<>>
    /\ r.text[1].json /\ r.text[1].tree # <<>>
    /\ r.text[1].tree[1].isArr
    /\ \A i \in 1..Len(r.text[1].tree[1].elems) : r.text[1].tree[1].elems[i].ty # <<>>
Listed(r) == r.text[1].tree[1].elems
IsBlobEntry(d) == d.ty = <<"blob">>

\* C4 (as claimed): whenever the tree-listing request fails to send or is
\* answered with a status other than 200, get_dentries returns the
\* TreeDoesNotExist error carrying the ref and "owner/name" (so neither
\* GitHubStatusFailure, nor a transport error, nor entries).
C4_StatusToError ==
    (treeResp # <<>> /\ (~Resp.sent \/ Resp.status # 200)) =>
        res = <<[tag |-> "Err",
                 err |-> [kind |-> "TreeDoesNotExist", tree |-> "main",
                          repo |-> user \o "/" \o repo]]>>

\* C5: for a 200 response whose body is a well-formed JSON document without
\* a top-level `tree` key, get_dentries returns ResponseKeyError with key
\* "tree", and no entry list.
C5_MissingField ==
    (/\ treeResp # <<>>
     /\ Resp.sent /\ Resp.status = 200 /\ Resp.text # <<>>
     /\ Resp.text[1].json /\ Resp.text[1].tree = <<>>) =>
        /\ res = <<[tag |-> "Err", err |-> [kind |-> "ResponseKeyError", key |-> "tree"]]>>
        /\ pc = "resolved"

\* C5 witness: get_dentries has returned on such a response.
C5_Witness ==
    /\ pc = "resolved"
    /\ treeResp = <<[sent |-> TRUE, status |-> 200,
                     text |-> <<[json |-> TRUE, tree |-> <<>>]>>]>>
    /\ Returned.tag = "Err"

\* C6: for every tree listing, get_dentries returns exactly the entries
\* whose kind is blob (N blob and M other entries give N results, wherever
\* the others sit), in the order of the listing.
C6_Filtering ==
    (treeResp # <<>> /\ IsListing(Resp)) =>
        /\ Returned.tag = "Ok"
        /\ Returned.val = SelectSeq(Listed(Resp), IsBlobEntry)
        /\ Len(Returned.val) =
              Cardinality({i \in 1..Len(Listed(Resp)) : IsBlobEntry(Listed(Resp)[i])})

\* C6 witness: a listing with a tree entry between two different blobs gave
\* the two blobs, in the listing's order.
C6_Witness ==
    /\ treeResp # <<>> /\ IsListing(Resp)
    /\ Len(Listed(Resp)) = 3
    /\ Listed(Resp)[2].ty = <<"tree">>
    /\ Returned.tag = "Ok"
    /\ Returned.val = <<[path |-> <<"b">>, ty |-> <<"blob">>],
                        [path |-> <<"a">>, ty |-> <<"blob">>]>>

\* the text t is s without its leading and trailing whitespace
IsTrimOf(t, s) ==
    \E i \in 1..Len(s) + 1, j \in 0..Len(s) :
        /\ t = SubSeq(s, i, j)
        /\ \A k \in 1..i - 1 : s[k] \in {" ", "\n"}
        /\ \A k \in j + 1..Len(s) : s[k] \in {" ", "\n"}
        /\ t = <<>> \/ (t[1] \notin {" ", "\n"} /\ t[Len(t)] \notin {" ", "\n"})
\* the strings of ls, one per line
RECURSIVE JoinLines(_)
JoinLines(ls) ==
    IF Len(ls) = 0 THEN ""
    ELSE IF Len(ls) = 1 THEN ls[1]
    ELSE ls[1] \o "\n" \o JoinLines(Tail(ls))
\* ls are the pieces of the text t between its newlines
ArePiecesOf(ls, t) ==
    /\ Len(ls) = 1 + Cardinality({k \in 1..Len(t) : t[k] = "\n"})
    /\ JoinLines(ls) = Str(t)

C8_StageOrdering ==
    /\ child # "none" =>
          /\ res # <<>> /\ Returned.tag = "Ok"
          /\ pc \in {"feed", "wait", "interpret", "selected"}
    /\ pc \in {"wait", "interpret"} =>
          stdin = [i \in 1..Len(Returned.val) |-> Returned.val[i].path[1]]
    /\ (started > 0 \/ inflight # {} \/ writes # {} \/ log # {}) =>
          /\ sel # <<>> /\ sel[1].tag = "Ok"
          /\ child = "none"
          /\ pc \in {"fetch", "exit"}

\* C8 witness: the listing was resolved, the picker fed with it, waited
\* for and read, and now two fetches of what it chose are in flight.
C8_Witness ==
    /\ pc = "fetch"
    /\ Cardinality(inflight) = 2
    /\ sel # <<>> /\ sel[1].tag = "Ok" /\ Len(Chosen) = 2
    /\ child = "none"

\* C9 (as claimed): every target is one chosen path, fetched once: no two
\* fetches, in flight together or one after another, have the same local
\* path.
C9_OneFetchPerPath ==
    /\ \A f, g \in inflight : f.path = g.path => f.idx = g.idx
    /\ \A w, x \in writes : w.path = x.path => w.idx = x.idx
    /\ \A f \in inflight, w \in writes : f.path # w.path

\* C11: when get_dentries or get_from_fzf yields an error (a non-200
\* status, a missing `tree` field, the picker interrupted or exited
\* non-zero), the run can only abort, with a non-zero status, and the fetch
\* pipeline never starts: no fetch is issued, no file is written.
C11_FatalErrors ==
    ((res # <<>> /\ res[1].tag = "Err") \/ (sel # <<>> /\ sel[1].tag = "Err")) =>
        /\ pc \in {"resolved", "selected", "exit"}
        /\ pc = "exit" => exit \in {"err", "panic"}
        /\ exit # "ok"
        /\ urls = <<>> /\ started = 0 /\ inflight = {}
        /\ writes = {} /\ DOMAIN files = {} /\ log = {}

\* C11 witness: the picker was interrupted by a signal and the run has
\* aborted.
C11_Witness ==
    /\ pc = "exit"
    /\ sel = <<[tag |-> "Err", err |-> [kind |-> "Interrupted"]]>>
    /\ exit = "panic"
    /\ started = 0

\* C12: once selection has succeeded, the process ends with success
\* whenever every chosen target has ended by its write or by a reported
\* download failure, however many of them failed (all of them included);
\* no download failure makes it end with an error status.
C12_LenientExit ==
    /\ (pc = "exit" /\ sel # <<>> /\ sel[1].tag = "Ok" /\ collected = Len(Chosen)) =>
          exit = "ok"
    /\ (sel # <<>> /\ sel[1].tag = "Ok" /\ started > 0) => exit # "err"

\* C12 witness: every one of more than four targets failed, at the
\* transport or at the body-read stage, and the process ended with success.
C12_Witness ==
    /\ exit = "ok"
    /\ Len(Chosen) > 4
    /\ writes = {}
    /\ \A i \in 1..Len(Chosen) : Reported(i)
    /\ \E l \in log : l.msg = "when reading " \o RawPath(user, repo, Chosen[l.idx])

\* C13 (as claimed): for every 200 tree-listing response, whatever its
\* body, get_dentries returns the entry list or a value of the error type;
\* it never terminates abnormally.
C13_AlwaysAResult ==
    (treeResp # <<>> /\ Resp.sent /\ Resp.status = 200 /\ res # <<>>) =>
        res[1].tag \in {"Ok", "Err"}

\* C17: every file on disk is named as one chosen path and holds the body
\* fetched from that path's own raw url; every write was made by the target
\* of that path with the body of its own url; no other file exists.
C17_FilesAreChosenPaths ==
    (sel # <<>> /\ sel[1].tag = "Ok") =>
        /\ \A w \in writes :
              /\ w.idx \in 1..Len(Chosen) /\ w.path = Chosen[w.idx]
              /\ w.text = RawBody(RawPath(user, repo, w.path), w.status)
        /\ \A p \in DOMAIN files :
              /\ \E i \in 1..Len(Chosen) : Chosen[i] = p
              /\ \E st \in RawStatuses : files[p] = RawBody(RawPath(user, repo, p), st)

\* C17 witness: two files are on disk while two other fetches are reading
\* their bodies.
C17_Witness ==
    /\ Cardinality(DOMAIN files) = 2
    /\ Cardinality({f \in inflight : f.stage = "text"}) = 2

\* C18: the raw url of every target is <raw-host>/<owner>/<name>/<ref>/<path>
\* with the owner, name and ref of the tree-listing request, the ref being
\* "main" as none is given.
C18_RawUrlOfListedRef ==
    \A t \in {urls[i] : i \in 1..Len(urls)} \cup
             {[path |-> f.path, raw_path |-> f.raw_path] : f \in inflight} :
        \E ref \in {"main", "master"} :
            /\ treeReq = <<"https://api.github.com/repos/" \o user \o "/" \o repo
                            \o "/git/trees/" \o ref \o "?recursive=1">>
            /\ t.raw_path = "https://raw.githubusercontent.com/" \o user \o "/"
                            \o repo \o "/" \o ref \o "/" \o t.path
            /\ ref = "main"

\* C18 witness: the targets of both listed paths are being fetched.
C18_Witness ==
    /\ inflight # {} /\ urls = <<>>
    /\ \E f, g \in inflight : f.path = "a" /\ g.path = "b"

\* C20 (as claimed): a file is written for a chosen path only when its
\* raw-content request was answered with a successful status.
C20_WriteOnlyOnSuccess == \A w \in writes : w.status = 200

\* the lines ": {cause}" of a chain of causes
CauseLines(chain) == [i \in 1..Len(chain) |-> ": " \o chain[i]]

\* C14 (as claimed): both wrapped kinds, HttpClientError and IoError, expose
\* their underlying cause through source(), so that Error::eprintln prints
\* the chain of causes for each of them; every other kind exposes no cause.
C14_WrappedKindsExposeCause ==
    (error # <<>> /\ epc # "eprintln") =>
        LET e == error[1] IN
        IF e.kind \in {"HttpClientError", "IoError"}
        THEN /\ source(e) = <<e.inner>>
             /\ epc = "done" =>
                   stderr = <<"Error: " \o Display(e)>> \o CauseLines(e.inner) \o <<"\n">>
        ELSE /\ source(e) = <<>>
             /\ epc = "done" => stderr = <<"Error: " \o Display(e), "\n">>

\* the number of lines in the picker's output: the newline-terminated ones
\* and a last one without its newline
LinesWritten(output) ==
    Cardinality({i \in 1..Len(output) : output[i] = "\n"})
    + (IF output # <<>> /\ output[Len(output)] # "\n" THEN 1 ELSE 0)

\* C15 (as claimed): when the picker exits with code 0, Chosen has exactly
\* one element per line the picker wrote to its standard output; when the
\* picker wrote nothing, or only whitespace, Chosen is empty.
C15_OneChosenPerLine ==
    (pc = "selected" /\ status = <<[code |-> <<0>>]>> /\ sel[1].tag = "Ok") =>
        /\ Len(Chosen) = LinesWritten(stdout)
        /\ (\A i \in 1..Len(stdout) : stdout[i] \in Whitespace) => Chosen = <<>>

C19_NoDeadlock ==
    pc # "selected" => ENABLED (ParentNext \/ ChildNext)

====
